---- MODULE Spec2Model ----
(***************************************************************************)
(* MiniTwit web application (src/src/app/main.go): the request handlers    *)
(* over the users / messages / followers tables and the per-client cookie  *)
(* session.  Every store call (db.First, db.Find, db.Create, db.Delete) is *)
(* one atomic step of the store; the store is assumed to be available, so  *)
(* the 500 branches of the handlers are not taken.  Flash messages and the *)
(* rendered HTML are left out: no table and no identity field depends on   *)
(* them.                                                                   *)
(***************************************************************************)
EXTENDS Integers, Sequences, FiniteSets, Bags, TLC

VARIABLES
    users,      \* users table: sequence of rows, the row's id is its index
    messages,   \* messages table: sequence of rows, the row's id is its index
    followers,  \* followers table: a bag of rows (no uniqueness constraint)
    sessions,   \* per client: the Values map of its "user-session" cookie
    pending,    \* per client: a register request between its lookup and its insert
    now,        \* the last value read from time.Now().Unix()
    last        \* the last request served: its handler, inputs and response

vars == <<users, messages, followers, sessions, pending, now, last>>

----------------------------------------------------------------------------
(* Bounds of the model *)

MaxRows == 3     \* rows in the three tables together
MaxExtra == 2    \* messages past the page size in a seeded store

(* Program constants *)

perPage == 30

(* Input domains *)

Clients == {"c1", "c2"}
Names == {"ada", "bob"}
InputNames == Names \cup {""}
EmailOK == <<"a", "@", "x">>
InputEmails == {<< >>, <<"a">>, EmailOK}
InputPasswords == {"", "pw1"}
InputPasswords2 == {"pw1", "pw2"}
LoginPasswords == {"pw1", "pw2"}
InputTexts == {"", "hi"}
Methods == {"GET", "POST"}
Salts == {1, 2}
OneSalt == {1}
FeedNames == {"ada", "bob", "zed"}
TieOrders == {"asc", "desc"}

None == [op |-> "none"]

\* r.FormValue of the register form; every field is "" on a GET
Forms == [username : InputNames, email : InputEmails,
          password : InputPasswords, password2 : InputPasswords2]
NoForm == [username |-> "", email |-> << >>, password |-> "", password2 |-> ""]

\* the register forms with a well-formed email and a password
GoodForms == {f \in Forms : f.email = EmailOK /\ f.password # ""}

\* r.FormValue of the login form
LoginForms == [username : InputNames, password : LoginPasswords]
NoLogin == [username |-> "", password |-> ""]

----------------------------------------------------------------------------
(* Password hashing *)

\* bcrypt.GenerateFromPassword: a salted digest; the salt is fresh per call
HashPw(password, salt) == <<salt, password>>

\* bcrypt.CompareHashAndPassword(hash, password) == nil
checkPwHash(password, hash) == hash[2] = password

\* strings.Contains(s, ch) for a one-character ch
Contains(s, ch) == \E i \in DOMAIN s : s[i] = ch

----------------------------------------------------------------------------
(* Session *)

IdentityKeys == {"user_id", "username"}

EmptyValues == [k \in {} |-> 0]

Anonymous == [ID |-> 0, Username |-> ""]

\* clearUserSessionData that forgets to delete the username
clearUserSessionData_KeepName(values) == [k \in (DOMAIN values) \ {"user_id"} |-> values[k]]

\* delete(session.Values, "user_id"); delete(session.Values, "username"); Save
clearUserSessionData(values) == [k \in (DOMAIN values) \ IdentityKeys |-> values[k]]

\* session.Values["user_id"] == nil || session.Values["username"] == nil
IdentityMissing(values) == "user_id" \notin DOMAIN values \/ "username" \notin DOMAIN values

\* the ctrl.User returned by getUserSession
SessionUser(values) ==
    IF IdentityMissing(values)
    THEN Anonymous
    ELSE [ID |-> values["user_id"], Username |-> values["username"]]

\* the session Values after getUserSession
SessionAfter(values) ==
    IF IdentityMissing(values) THEN clearUserSessionData(values) ELSE values

\* session.Values["user_id"] = id; session.Values["username"] = name; Save
Establish(values, id, name) ==
    [k \in (DOMAIN values) \cup IdentityKeys |->
        IF k = "user_id" THEN id ELSE IF k = "username" THEN name ELSE values[k]]

----------------------------------------------------------------------------
(* Store queries *)

UserIds == 1..Len(users)
MessageIds == 1..Len(messages)

Min(S) == CHOOSE x \in S : \A y \in S : x <= y

\* db.First(&user, "username = ?", name): the matching row of lowest id, 0 if none
FirstByUsername(name) ==
    LET ids == {i \in UserIds : users[i].username = name}
    IN  IF ids = {} THEN 0 ELSE Min(ids)

\* ctrl.GetUserID(username, db): the id of the user of that name, 0 if none
GetUserID(name) == FirstByUsername(name)

\* db.First(&follow, "follower_id = ? AND follows_id = ?", ...) finds a row
IsFollowing(followerId, followsId) ==
    BagIn([follower_id |-> followerId, follows_id |-> followsId], followers)

\* SELECT follows_id FROM followers WHERE follower_id = ?
FollowsOf(followerId) ==
    {e.follows_id : e \in {x \in BagToSet(followers) : x.follower_id = followerId}}

\* JOIN users ON messages.author_id = users.id
Joined(i) == messages[i].author_id \in UserIds

\* public: WHERE flagged = 0
PublicWhere(i) == Joined(i) /\ messages[i].flagged = 0

\* the own query without its Or("users.id IN (?)", subquery)
OwnWhere_SelfOnly(uid, i) == messages[i].author_id \in UserIds /\ messages[i].author_id = uid

\* own: WHERE users.id = ? OR users.id IN (subquery) AND flagged = 0
\* (Where, Or and the inline condition of Find are joined without
\*  parentheses, and AND binds tighter than OR)
OwnWhere(uid, i) ==
    /\ Joined(i)
    /\ \/ messages[i].author_id = uid
       \/ (messages[i].author_id \in FollowsOf(uid) /\ messages[i].flagged = 0)

\* profile: WHERE messages.flagged = 0 AND users.username = ?
ProfileWhere(name, i) ==
    /\ Joined(i)
    /\ messages[i].flagged = 0
    /\ users[messages[i].author_id].username = name

\* ORDER BY date desc: rows of equal date come in an order the store picks
Before(i, j, tie) ==
    \/ messages[i].date > messages[j].date
    \/ /\ messages[i].date = messages[j].date
       /\ IF tie = "asc" THEN i < j ELSE i > j

\* row i put at its place in a sequence of rows ordered by Before
InsertRow(seq, i, tie) ==
    LET p == Cardinality({k \in 1..Len(seq) : Before(seq[k], i, tie)})
    IN  SubSeq(seq, 1, p) \o <<i>> \o SubSeq(seq, p + 1, Len(seq))

\* the rows of Q among the first k rows of the table, ordered by Before
RECURSIVE SortRows(_, _, _)
SortRows(k, Q, tie) ==
    IF k = 0 THEN << >>
    ELSE IF k \in Q THEN InsertRow(SortRows(k - 1, Q, tie), k, tie)
    ELSE SortRows(k - 1, Q, tie)

\* a query without its Limit(perPage)
Limit_None(seq, n) == seq

\* LIMIT n
Limit(seq, n) == SubSeq(seq, 1, IF Len(seq) < n THEN Len(seq) ELSE n)

\* ORDER BY messages.date desc LIMIT perPage over the selected rows
OrderLimit(Q, tie) == Limit(SortRows(Len(messages), Q, tie), perPage)

\* getMessages(w, r, public, own): the ids of the rows returned
getMessages(user, public, own, username, tie) ==
    IF public THEN OrderLimit({i \in MessageIds : PublicWhere(i)}, tie)
    ELSE IF own THEN OrderLimit({i \in MessageIds : OwnWhere(user.ID, i)}, tie)
    ELSE OrderLimit({i \in MessageIds : ProfileWhere(username, i)}, tie)

\* a delete that removes one matching row only
DeleteFollowers_One(bag, followerId, followsId) ==
    bag (-) SetToBag({[follower_id |-> followerId, follows_id |-> followsId]})

\* db.Where("follower_id = ? AND follows_id = ?", ...).Delete(&ctrl.Follower{})
DeleteFollowers(bag, followerId, followsId) ==
    LET keep == {e \in BagToSet(bag) :
                    ~(e.follower_id = followerId /\ e.follows_id = followsId)}
    IN  [e \in keep |-> bag[e]]

\* db.Create(&ctrl.Follower{FollowerID: ..., FollowsID: ...})
CreateFollower(bag, followerId, followsId) ==
    bag (+) SetToBag({[follower_id |-> followerId, follows_id |-> followsId]})

\* a handler without the check of the caller
Unauthorized_Never(user) == FALSE

\* if user.Username == "" { w.WriteHeader(401); return }
Unauthorized(user) == user.Username = ""

----------------------------------------------------------------------------
(* Initial state: an empty database, no cookie at any client *)

Init ==
    /\ users = << >>
    /\ messages = << >>
    /\ followers = EmptyBag
    /\ sessions = [c \in Clients |-> EmptyValues]
    /\ pending = [c \in Clients |-> None]
    /\ now = 0
    /\ last = None

Idle(c) == pending[c] = None

\* rows in the store, counting the inserts of the register requests in flight
Rows == Len(users) + Len(messages) + BagCardinality(followers)

PendingCount == Cardinality({c \in Clients : pending[c] # None})

----------------------------------------------------------------------------
(* Feed handlers *)

\* timeline: the caller's own timeline, or a redirect to /public
timeline(c, tie) ==
    LET user == SessionUser(sessions[c]) IN
    /\ Idle(c)
    /\ sessions' = [sessions EXCEPT ![c] = SessionAfter(@)]
    /\ last' = IF user.Username = ""
               THEN [op |-> "timeline", client |-> c, user |-> user, status |-> 303,
                     feed |-> << >>]
               ELSE [op |-> "timeline", client |-> c, user |-> user, status |-> 200,
                     feed |-> getMessages(user, FALSE, TRUE, "", tie)]
    /\ UNCHANGED <<users, messages, followers, pending, now>>

\* publicTimeline: every author's messages
publicTimeline(c, tie) ==
    LET user == SessionUser(sessions[c]) IN
    /\ Idle(c)
    /\ sessions' = [sessions EXCEPT ![c] = SessionAfter(@)]
    /\ last' = [op |-> "publicTimeline", client |-> c, user |-> user, status |-> 200,
                feed |-> getMessages(user, TRUE, FALSE, "", tie),
                had |-> (DOMAIN sessions[c]) \cap IdentityKeys]
    /\ UNCHANGED <<users, messages, followers, pending, now>>

\* userTimeline: the messages of the profile /{username}
userTimeline(c, name, tie) ==
    LET profileID == FirstByUsername(name)
        user      == SessionUser(sessions[c])
    IN
    /\ Idle(c)
    /\ IF profileID = 0
       THEN /\ last' = [op |-> "userTimeline", client |-> c, status |-> 404,
                        profile |-> name, feed |-> << >>]
            /\ UNCHANGED sessions
       ELSE /\ sessions' = [sessions EXCEPT ![c] = SessionAfter(@)]
            /\ last' = [op |-> "userTimeline", client |-> c, user |-> user,
                        status |-> 200, profile |-> name,
                        followed |-> IF user.ID # 0
                                     THEN IsFollowing(user.ID, profileID)
                                     ELSE TRUE,
                        feed |-> getMessages(user, FALSE, FALSE, name, tie)]
    /\ UNCHANGED <<users, messages, followers, pending, now>>

----------------------------------------------------------------------------
(* Follow graph handlers.  The target's id is read before the write; user  *)
(* rows are never deleted or renamed, so the two store calls are taken as  *)
(* one step.                                                               *)

follow(c, name) ==
    LET user      == SessionUser(sessions[c])
        followsID == GetUserID(name)
    IN
    /\ Idle(c)
    /\ sessions' = [sessions EXCEPT ![c] = SessionAfter(@)]
    /\ IF Unauthorized(user)
       THEN /\ last' = [op |-> "follow", client |-> c, user |-> user,
                        target |-> name, status |-> 401]
            /\ UNCHANGED followers
       ELSE IF followsID = 0
       THEN /\ last' = [op |-> "follow", client |-> c, user |-> user,
                        target |-> name, status |-> 404]
            /\ UNCHANGED followers
       ELSE /\ Rows + PendingCount < MaxRows
            /\ followers' = CreateFollower(followers, user.ID, followsID)
            /\ last' = [op |-> "follow", client |-> c, user |-> user,
                        target |-> name, status |-> 303, followsID |-> followsID]
    /\ UNCHANGED <<users, messages, pending, now>>

unfollow(c, name) ==
    LET user      == SessionUser(sessions[c])
        followsID == GetUserID(name)
    IN
    /\ Idle(c)
    /\ sessions' = [sessions EXCEPT ![c] = SessionAfter(@)]
    /\ IF Unauthorized(user)
       THEN /\ last' = [op |-> "unfollow", client |-> c, user |-> user,
                        target |-> name, status |-> 401]
            /\ UNCHANGED followers
       ELSE IF followsID = 0
       THEN /\ last' = [op |-> "unfollow", client |-> c, user |-> user,
                        target |-> name, status |-> 404]
            /\ UNCHANGED followers
       ELSE /\ followers' = DeleteFollowers(followers, user.ID, followsID)
            /\ last' = [op |-> "unfollow", client |-> c, user |-> user,
                        target |-> name, status |-> 303, followsID |-> followsID,
                        deleted |-> CopiesIn([follower_id |-> user.ID,
                                              follows_id |-> followsID], followers)]
    /\ UNCHANGED <<users, messages, pending, now>>

----------------------------------------------------------------------------
(* Posting *)

addMessage(c, text) ==
    LET user == SessionUser(sessions[c]) IN
    /\ Idle(c)
    /\ sessions' = [sessions EXCEPT ![c] = SessionAfter(@)]
    /\ IF user.ID = 0
       THEN /\ last' = [op |-> "addMessage", client |-> c, user |-> user, status |-> 401]
            /\ UNCHANGED <<messages, now>>
       ELSE IF text = ""
       THEN /\ last' = [op |-> "addMessage", client |-> c, user |-> user, status |-> 303]
            /\ UNCHANGED <<messages, now>>
       ELSE /\ Rows + PendingCount < MaxRows
            /\ \E t \in {now, now + 1} :
                 /\ now' = t
                 /\ messages' = Append(messages,
                        [author_id |-> user.ID, text |-> text, date |-> t, flagged |-> 0])
            /\ last' = [op |-> "addMessage", client |-> c, user |-> user, status |-> 303]
    /\ UNCHANGED <<users, followers, pending>>

\* the moderation flag of a message is set from outside the handlers
FlagMessage(i) ==
    /\ messages[i].flagged = 0
    /\ messages' = [messages EXCEPT ![i].flagged = 1]
    /\ last' = [op |-> "flag", id |-> i]
    /\ UNCHANGED <<users, followers, sessions, pending, now>>

----------------------------------------------------------------------------
(* Authentication *)

\* the error string login computes for a POST, "" when it logs the user in
LoginError(id, password) ==
    IF id = 0 THEN "Invalid username" ELSE ""

login(c, method, name, password) ==
    LET user == SessionUser(sessions[c])
        id   == FirstByUsername(name)
    IN
    /\ Idle(c)
    /\ IF user.ID # 0
       THEN /\ sessions' = [sessions EXCEPT ![c] = SessionAfter(@)]
            /\ last' = [op |-> "login", client |-> c, status |-> 303, error |-> "",
                        loggedIn |-> FALSE]
       ELSE IF method = "POST" /\ LoginError(id, password) = ""
       THEN /\ sessions' = [sessions EXCEPT ![c] =
                               Establish(SessionAfter(@), id, users[id].username)]
            /\ last' = [op |-> "login", client |-> c, status |-> 303, error |-> "",
                        loggedIn |-> TRUE, username |-> name, password |-> password]
       ELSE /\ sessions' = [sessions EXCEPT ![c] = SessionAfter(@)]
            /\ last' = [op |-> "login", client |-> c, status |-> 200,
                        error |-> IF method = "POST" THEN LoginError(id, password) ELSE "",
                        loggedIn |-> FALSE]
    /\ UNCHANGED <<users, messages, followers, pending, now>>

logout(c) ==
    /\ Idle(c)
    /\ sessions' = [sessions EXCEPT ![c] = clearUserSessionData(@)]
    /\ last' = [op |-> "logout", client |-> c, status |-> 303]
    /\ UNCHANGED <<users, messages, followers, pending, now>>

\* the validation chain without its last rule
RegisterError_NoTaken(name, email, password, password2, userID) ==
    IF name = "" THEN "You have to enter a username"
    ELSE IF email = << >> \/ ~Contains(email, "@")
         THEN "You have to enter a valid email address"
    ELSE IF password = "" THEN "You have to enter a password"
    ELSE IF password # password2 THEN "The two passwords do not match"
    ELSE ""

\* the validation chain of register, "" when every rule passes
RegisterError(name, email, password, password2, userID) ==
    IF name = "" THEN "You have to enter a username"
    ELSE IF email = << >> \/ ~Contains(email, "@")
         THEN "You have to enter a valid email address"
    ELSE IF password = "" THEN "You have to enter a password"
    ELSE IF password # password2 THEN "The two passwords do not match"
    ELSE IF userID # 0 THEN "The username is already taken"
    ELSE ""

\* register up to its last read of the store: the session check, the
\* username lookup and the validation of the form
register(c, method, f) ==
    LET name      == f.username
        email     == f.email
        password  == f.password
        password2 == f.password2
        userID == GetUserID(name)
        error  == RegisterError(name, email, password, password2, userID)
        form   == [username |-> name, email |-> email, password |-> password,
                   password2 |-> password2, userID |-> userID]
    IN
    /\ Idle(c)
    /\ IF "user_id" \in DOMAIN sessions[c]
       THEN /\ last' = [op |-> "register", client |-> c, status |-> 303, error |-> "",
                        created |-> FALSE, posted |-> FALSE]
            /\ UNCHANGED pending
       ELSE IF method = "GET"
       THEN /\ last' = [op |-> "register", client |-> c, status |-> 200, error |-> "",
                        created |-> FALSE, posted |-> FALSE]
            /\ UNCHANGED pending
       ELSE IF error # ""
       THEN /\ last' = [op |-> "register", client |-> c, status |-> 200, error |-> error,
                        created |-> FALSE, posted |-> TRUE, form |-> form]
            /\ UNCHANGED pending
       ELSE /\ Rows + PendingCount < MaxRows
            /\ pending' = [pending EXCEPT ![c] = form]
            /\ last' = [op |-> "registerLookup", client |-> c]
    /\ UNCHANGED <<users, messages, followers, sessions, now>>

\* register from the hashing of the password on: the insert of the user row
registerCreate(c, salt) ==
    /\ pending[c] # None
    /\ users' = Append(users, [username |-> pending[c].username,
                               email    |-> pending[c].email,
                               pw_hash  |-> HashPw(pending[c].password, salt)])
    /\ pending' = [pending EXCEPT ![c] = None]
    /\ last' = [op |-> "register", client |-> c, status |-> 303, error |-> "",
                created |-> TRUE, posted |-> TRUE, form |-> pending[c]]
    /\ UNCHANGED <<messages, followers, sessions, now>>

----------------------------------------------------------------------------
(* Every handler, from the empty database.  The register forms are the     *)
(* well-formed ones and the salt is fixed; SpecAuth below takes every form *)
(* and more than one salt.                                                 *)

Next ==
    \/ \E c \in Clients, tie \in TieOrders : timeline(c, tie)
    \/ \E c \in Clients, tie \in TieOrders : publicTimeline(c, tie)
    \/ \E c \in Clients, name \in Names, tie \in TieOrders : userTimeline(c, name, tie)
    \/ \E c \in Clients, name \in Names : follow(c, name)
    \/ \E c \in Clients, name \in Names : unfollow(c, name)
    \/ \E c \in Clients, text \in InputTexts : addMessage(c, text)
    \/ \E i \in MessageIds : FlagMessage(i)
    \/ \E c \in Clients, m \in Methods :
          \E f \in IF m = "GET" THEN {NoLogin} ELSE LoginForms :
             login(c, m, f.username, f.password)
    \/ \E c \in Clients : logout(c)
    \/ \E c \in Clients, m \in Methods :
          \E f \in IF m = "GET" THEN {NoForm} ELSE GoodForms : register(c, m, f)
    \/ \E c \in Clients, salt \in OneSalt : registerCreate(c, salt)

Spec == Init /\ [][Next]_vars

----------------------------------------------------------------------------
(* The authentication handlers alone, over every register form and with *)
(* more than one salt                                                   *)

NextAuth ==
    \/ \E c \in Clients, m \in Methods :
          \E f \in IF m = "GET" THEN {NoLogin} ELSE LoginForms :
             login(c, m, f.username, f.password)
    \/ \E c \in Clients : logout(c)
    \/ \E c \in Clients, m \in Methods :
          \E f \in IF m = "GET" THEN {NoForm} ELSE Forms : register(c, m, f)
    \/ \E c \in Clients, salt \in Salts : registerCreate(c, salt)

SpecAuth == Init /\ [][NextAuth]_vars

----------------------------------------------------------------------------
(* Seeded stores *)

\* a registered user's row
SeedUser(name) == [username |-> name, email |-> EmailOK, pw_hash |-> HashPw("pw1", 1)]

\* the cookie of a logged-in client
LoggedIn(id, name) == Establish(EmptyValues, id, name)

Edge(a, b) == [follower_id |-> a, follows_id |-> b]

----------------------------------------------------------------------------
(* The feed queries over seeded stores that hold more messages than a page. *)
(* Three users are registered; message i of n is written by the first user  *)
(* ("one"), by the three in turn ("all") or by the first two in turn but     *)
(* for one message of the third ("two"), at a time picked by the grain (a    *)
(* grain of 2 gives pairs of equal dates), and is flagged when i is a        *)
(* multiple of the flag period.                                              *)

SeedSizes == {2, perPage, perPage + 1, perPage + MaxExtra}

SeedAuthors == {"one", "all", "two"}

SeedAuthor(i, authors) ==
    IF authors = "one" THEN 1
    ELSE IF authors = "all" THEN (i % 3) + 1
    ELSE IF i = 2 THEN 3 ELSE (i % 2) + 1

SeedMessages(n, authors, grain, period) ==
    [i \in 1..n |->
        [author_id |-> SeedAuthor(i, authors),
         text      |-> "hi",
         date      |-> (i - 1) \div grain,
         flagged   |-> IF period # 0 /\ i % period = 0 THEN 1 ELSE 0]]

SeedFollowers ==
    {EmptyBag,
     SetToBag({Edge(1, 2)}),
     SetToBag({Edge(1, 2), Edge(1, 3), Edge(2, 1)}),
     SetToBag({Edge(1, 2), Edge(3, 1)}) (+) SetToBag({Edge(1, 2)})}

InitFeed ==
    /\ users = <<SeedUser("ada"), SeedUser("bob"), SeedUser("cyd")>>
    /\ \E n \in SeedSizes, authors \in SeedAuthors, grain \in {1, 2}, period \in {0, 2, 5} :
          /\ messages = SeedMessages(n, authors, grain, period)
          /\ now = (n - 1) \div grain
    /\ followers \in SeedFollowers
    /\ sessions = [c \in Clients |->
                      IF c = "c1" THEN LoggedIn(1, "ada") ELSE EmptyValues]
    /\ pending = [c \in Clients |-> None]
    /\ last = None

NextFeed ==
    \/ \E c \in Clients, tie \in TieOrders : timeline(c, tie)
    \/ \E c \in Clients, tie \in TieOrders : publicTimeline(c, tie)
    \/ \E c \in Clients, name \in FeedNames, tie \in TieOrders : userTimeline(c, name, tie)

SpecFeed == InitFeed /\ [][NextFeed]_vars

----------------------------------------------------------------------------
(* The session handlers over every cookie content, well-formed or not: a *)
(* cookie may carry both identity fields, one of them (a cookie written  *)
(* by another release of the application), or none.                      *)

SeedValues ==
    {EmptyValues}
        \cup {[k \in {"user_id"} |-> id] : id \in 1..2}
        \cup {[k \in {"username"} |-> name] : name \in Names}
        \cup {LoggedIn(id, name) : id \in 1..2, name \in Names}

InitSession ==
    /\ users = <<SeedUser("ada"), SeedUser("bob")>>
    /\ messages = << >>
    /\ followers = EmptyBag
    /\ sessions \in [Clients -> SeedValues]
    /\ pending = [c \in Clients |-> None]
    /\ now = 0
    /\ last = None

NextSession ==
    \/ \E c \in Clients, tie \in TieOrders : timeline(c, tie)
    \/ \E c \in Clients, tie \in TieOrders : publicTimeline(c, tie)
    \/ \E c \in Clients, m \in Methods :
          \E f \in IF m = "GET" THEN {NoLogin} ELSE LoginForms :
             login(c, m, f.username, f.password)
    \/ \E c \in Clients : logout(c)

SpecSession == InitSession /\ [][NextSession]_vars

----------------------------------------------------------------------------
(* Properties *)

FeedOps == {"timeline", "publicTimeline", "userTimeline"}

\* the last request returned a feed
FeedServed == last.op \in FeedOps /\ last.status = 200

FeedIds == {last.feed[k] : k \in DOMAIN last.feed}

Author(i) == messages[i].author_id

\* message i is one the own timeline of user uid is documented to show
OwnQualifies(uid, i) ==
    /\ messages[i].flagged = 0
    /\ (Author(i) = uid \/ Edge(uid, Author(i)) \in BagToSet(followers))

\* message i is one the feed of the last request is documented to show
Qualifies(i) ==
    IF last.op = "publicTimeline" THEN messages[i].flagged = 0
    ELSE IF last.op = "timeline" THEN OwnQualifies(last.user.ID, i)
    ELSE messages[i].flagged = 0 /\ users[Author(i)].username = last.profile

OwnServed == last.op = "timeline" /\ last.status = 200

\* C1: a login that establishes a session supplied a password that verifies
\* against the password hash of the user the session now names
LoginVerifiesPassword ==
    (last.op = "login" /\ last.loggedIn) =>
        checkPwHash(last.password, users[sessions[last.client]["user_id"]].pw_hash)

\* C2 (as claimed): the own timeline holds every non-flagged message of the
\* viewer and of the users the viewer follows, and no message of anyone else
OwnTimelineComplete ==
    OwnServed =>
        /\ \A i \in MessageIds : OwnQualifies(last.user.ID, i) => i \in FeedIds
        /\ \A i \in FeedIds :
              Author(i) = last.user.ID
                 \/ Edge(last.user.ID, Author(i)) \in BagToSet(followers)

\* C2 (amended): the own timeline holds no message of a user who is neither the
\* viewer nor followed by the viewer, and a non-flagged message of the viewer or
\* of a followed user is left out only when the feed is full (perPage entries)
\* of messages that are at least as new
OwnTimelineWindow ==
    OwnServed =>
        /\ \A i \in FeedIds :
              Author(i) = last.user.ID
                 \/ Edge(last.user.ID, Author(i)) \in BagToSet(followers)
        /\ \A i \in MessageIds \ FeedIds :
              OwnQualifies(last.user.ID, i) =>
                 /\ Len(last.feed) = perPage
                 /\ \A j \in FeedIds : messages[j].date >= messages[i].date

\* C2 witness: an own timeline with a followed user's message in it, a message
\* of a user who is not followed kept out, and a full page that leaves a
\* qualifying message out
OwnTimelineWindowSeen ==
    /\ OwnServed
    /\ \E i \in FeedIds : Author(i) # last.user.ID
    /\ \E i \in MessageIds :
          /\ Author(i) # last.user.ID
          /\ Edge(last.user.ID, Author(i)) \notin BagToSet(followers)
    /\ \E i \in MessageIds \ FeedIds : OwnQualifies(last.user.ID, i)

\* C3: no feed of any mode holds a flagged message
NoFlaggedInFeed ==
    FeedServed => \A i \in FeedIds : messages[i].flagged = 0

\* C4: a feed has at most perPage entries, in non-increasing order of date, and
\* no qualifying message left out of it is strictly newer than one in it
FeedIsNewestWindow ==
    FeedServed =>
        /\ Len(last.feed) <= perPage
        /\ \A k \in 1..(Len(last.feed) - 1) :
              messages[last.feed[k]].date >= messages[last.feed[k + 1]].date
        /\ \A i \in MessageIds \ FeedIds :
              Qualifies(i) => \A j \in FeedIds : messages[i].date <= messages[j].date

\* C4 witness: a full own timeline that leaves qualifying messages out and
\* interleaves the messages of two authors
FeedIsNewestWindowSeen ==
    /\ OwnServed
    /\ Len(last.feed) = perPage
    /\ \E i \in MessageIds \ FeedIds : Qualifies(i)
    /\ \E k \in 1..(perPage - 2) :
          /\ Author(last.feed[k]) # Author(last.feed[k + 1])
          /\ Author(last.feed[k + 1]) # Author(last.feed[k + 2])

RegisterTakenAlways ==
    (last.op = "register" /\ last.posted /\ last.form.userID # 0) =>
        last.error = "The username is already taken" /\ ~last.created

FormFieldsValid(f) ==
    /\ f.email # << >>
    /\ Contains(f.email, "@")
    /\ f.password # ""
    /\ f.password = f.password2

EarlierErrors ==
    {"You have to enter a valid email address",
     "You have to enter a password",
     "The two passwords do not match"}

\* C6 (amended): a register form posted without a session, with a username that
\* exists, creates no user and is answered with a validation error: the
\* username-taken error exactly when the email (non-empty, with an "@"), the
\* password (non-empty) and its confirmation (equal) pass their rules, and the
\* error of one of those rules otherwise
RegisterTakenWhenValid ==
    /\ [](  (last.op = "register" /\ last.posted /\ last.form.userID # 0) =>
              /\ ~last.created
              /\ last.status = 200
              /\ last.error \in EarlierErrors \cup {"The username is already taken"}
              /\ (last.error = "The username is already taken"
                    <=> FormFieldsValid(last.form)) )
    /\ [][ (last'.op = "register" /\ last'.posted /\ last'.form.userID # 0) =>
              users' = users ]_vars

\* C6 witness: a well-formed form with a username that exists was refused
RegisterTakenWhenValidSeen ==
    /\ last.op = "register" /\ last.posted /\ last.form.userID # 0
    /\ FormFieldsValid(last.form)
    /\ last.error = "The username is already taken"

\* C7: no two user rows have the same username
UsernamesUnique ==
    \A i, j \in UserIds : users[i].username = users[j].username => i = j

\* C8: a follow or an unfollow of the anonymous principal is answered 401 and
\* leaves the followers table as it was, and no followers row has follower 0
AnonymousCannotFollow ==
    /\ [](\A e \in BagToSet(followers) : e.follower_id # 0)
    /\ [][ (last'.op \in {"follow", "unfollow"} /\ last'.user.ID = 0) =>
              /\ last'.user = Anonymous
              /\ last'.status = 401
              /\ followers' = followers ]_vars

\* C8 witness: an anonymous follow of an existing user was refused while a
\* followers row exists
AnonymousCannotFollowSeen ==
    /\ last.op = "follow" /\ last.user = Anonymous /\ last.status = 401
    /\ GetUserID(last.target) # 0
    /\ followers # EmptyBag

ResolveOps == {"timeline", "publicTimeline"}

HasIdentity(values) == IdentityKeys \subseteq DOMAIN values

\* C9: resolving a session that lacks user_id or username gives the anonymous
\* principal and leaves neither field in the session; resolving a session with
\* both gives exactly them and leaves the session as it was
ResolveContract ==
    [][ \A c \in Clients :
          (last'.op \in ResolveOps /\ last'.client = c) =>
             IF HasIdentity(sessions[c])
             THEN /\ last'.user = [ID |-> sessions[c]["user_id"],
                                   Username |-> sessions[c]["username"]]
                  /\ sessions'[c] = sessions[c]
             ELSE /\ last'.user = Anonymous
                  /\ (DOMAIN sessions'[c]) \cap IdentityKeys = {}
      ]_vars

\* C9 witness: a session with exactly one identity field was resolved
ResolveContractSeen ==
    /\ last.op = "publicTimeline"
    /\ Cardinality(last.had) = 1
    /\ last.user = Anonymous
    /\ (DOMAIN sessions[last.client]) \cap IdentityKeys = {}

\* C10: no followers row has the same user as follower and as followed
NoSelfFollow ==
    \A e \in BagToSet(followers) : e.follower_id # e.follows_id

====
